---- MODULE Spec2Model ----
(***************************************************************************)
(* Plex Artwork Healer (plex_artwork_healer.py): the per-(item, slot)      *)
(* reconciliation fix_art, the Backup Store under BASE_DIR, the TMDb       *)
(* identifier cache and the run loop of main / process_section.            *)
(*                                                                         *)
(* Everything outside the process (the Plex server, TMDb, the file system) *)
(* answers each request nondeterministically: the answers are the inputs   *)
(* of the actions.                                                         *)
(***************************************************************************)
EXTENDS Integers, Sequences, FiniteSets, TLC

\* ------------------------------------------------------------------------
\* Bounds
\* ------------------------------------------------------------------------
\* number of times the script is run, one after the other, over the same
\* BASE_DIR
MaxRuns == 2

\* ------------------------------------------------------------------------
\* Configuration and the library contents served by the Plex server
\* ------------------------------------------------------------------------
LIBRARIES == <<"Movies", "TV Shows">>

\* the two calls of process_section, in order
ArtTypes == <<"poster", "background">>

\* characters removed by safe_filename
IllegalChars == {"\\", "/", "*", "?", ":", "\"", "<", ">", "|"}

\* item 1 and item 2 are two movies whose titles differ only in an illegal
\* character; item 3 is a show; 4 is a collection of the Movies library;
\* item 5 is an item whose title is the empty string
ItemTitle ==
    (1 :> <<"a">>) @@ (2 :> <<"a", ":">>) @@ (3 :> <<"b">>) @@ (4 :> <<"c">>)
 @@ (5 :> <<>>)

\* a guid is a sequence of tokens: the scheme "themoviedb://", single
\* digits, and other text
ItemGuid ==
    (1 :> <<"com.plexapp.agents.", "themoviedb://", "6", "0", "3", "?lang=en">>)
 @@ (2 :> <<"themoviedb://", "0">>)
 @@ (3 :> <<"plex://show/5d9c">>)
 @@ (4 :> <<"collection://0f3a">>)
 @@ (5 :> <<"themoviedb://", "0", "7">>)

\* what section.all() can return for the two libraries: the contents of
\* the Plex server a run works on
Worlds ==
    { ("Movies" :> <<1, 2>>) @@ ("TV Shows" :> <<>>),
      ("Movies" :> <<1>>)    @@ ("TV Shows" :> <<3>>) }

\* the libraries the cache functions are applied to: every list of at most
\* MaxItems of the items 1, 2, 3 and 5, for each library
MaxItems == 2

RECURSIVE ListsUpTo(_, _)
ListsUpTo(items, n) ==
    IF n = 0 THEN {<<>>}
    ELSE ListsUpTo(items, n - 1)
         \cup {Append(l, i) : l \in ListsUpTo(items, n - 1), i \in items}

CacheWorlds ==
    { ("Movies" :> m) @@ ("TV Shows" :> t) :
        m \in ListsUpTo({1, 2, 3, 5}, MaxItems),
        t \in ListsUpTo({1, 2, 3, 5}, MaxItems) }

\* the contents of the server whose script is run again and again
RerunWorld == ("Movies" :> <<1, 2>>) @@ ("TV Shows" :> <<>>)

\* section.collections()
SectionCollections == ("Movies" :> <<4>>) @@ ("TV Shows" :> <<>>)

\* r.content of the artwork served by Plex and of the images served by TMDb
PlexImages == {<<1>>}
TmdbImages == {<<3>>}

\* cache.get(title) when the title is not cached; match is None
None == -1

\* ------------------------------------------------------------------------
\* Pure helpers
\* ------------------------------------------------------------------------
safe_filename(name) == SelectSeq(name, LAMBDA c : c \notin IllegalChars)

\* BASE_DIR/library/safe_filename(title)/art_type.jpg
get_artwork_path(library, title, art_type) ==
    <<library, safe_filename(title), art_type>>

\* os.path.dirname
dirname(path) == <<path[1], path[2]>>

Digits == ("0" :> 0) @@ ("1" :> 1) @@ ("2" :> 2) @@ ("3" :> 3) @@ ("4" :> 4)
       @@ ("5" :> 5) @@ ("6" :> 6) @@ ("7" :> 7) @@ ("8" :> 8) @@ ("9" :> 9)

IsDigit(c) == c \in DOMAIN Digits

\* int() of the maximal run of digits of g that starts at position i
RECURSIVE DigitRun(_, _, _)
DigitRun(g, i, acc) ==
    IF i <= Len(g) /\ IsDigit(g[i])
    THEN DigitRun(g, i + 1, acc * 10 + Digits[g[i]])
    ELSE acc

\* re.search(r'themoviedb://(\d+)', guid or ''): the leftmost match
extract_tmdb_id_from_guid(guid) ==
    LET hits == {i \in 1..Len(guid) :
                    /\ guid[i] = "themoviedb://"
                    /\ i + 1 <= Len(guid)
                    /\ IsDigit(guid[i + 1])}
    IN IF hits = {} THEN None
       ELSE LET first == CHOOSE i \in hits : \A j \in hits : i <= j
            IN DigitRun(guid, first + 1, 0)

\* Python truth value of an identifier (None and 0 are false)
Truthy(id) == id # None /\ id # 0

\* cache.get(title)
cache_get(c, title) == IF title \in DOMAIN c THEN c[title] ELSE None

\* ------------------------------------------------------------------------
\* build_tmdb_cache
\* ------------------------------------------------------------------------
\* A dict under construction is an association list in insertion order:
\* assigning to a key that is present replaces its value in place.
dict_set(d, title, id) ==
    IF \E k \in 1..Len(d) : d[k][1] = title
    THEN [k \in 1..Len(d) |-> IF d[k][1] = title THEN <<title, id>> ELSE d[k]]
    ELSE Append(d, <<title, id>>)

\* the dict as a mapping title -> id
AsMapping(d) ==
    [t \in {d[k][1] : k \in 1..Len(d)} |->
        LET k == CHOOSE j \in 1..Len(d) : d[j][1] = t IN d[k][2]]

\* "if tmdb_id is not None:" in place of "if tmdb_id:"
CacheableIdNotNone(id) == id # None

\* "if tmdb_id:" of the two caching loops
CacheableId(id) == Truthy(id)

\* the loop body over the items (or collections) of one section
RECURSIVE CacheEntries(_, _)
CacheEntries(d, items) ==
    IF items = <<>> THEN d
    ELSE LET id == extract_tmdb_id_from_guid(ItemGuid[Head(items)])
         IN CacheEntries(IF CacheableId(id)
                         THEN dict_set(d, ItemTitle[Head(items)], id)
                         ELSE d,
                         Tail(items))

\* "for lib in LIBRARIES": a library of failedLibs raises in section() or
\* all() and is skipped by the except clause
RECURSIVE CacheLibraries(_, _, _, _)
CacheLibraries(d, k, sectionAll, failedLibs) ==
    IF k > Len(LIBRARIES) THEN d
    ELSE CacheLibraries(IF LIBRARIES[k] \in failedLibs THEN d
                        ELSE CacheEntries(d, sectionAll[LIBRARIES[k]]),
                        k + 1, sectionAll, failedLibs)

\* the dict at line 142: all libraries, then the collections of "Movies"
BuiltDict(sectionAll, failedLibs, collsFail) ==
    LET d == CacheLibraries(<<>>, 1, sectionAll, failedLibs)
    IN IF collsFail THEN d ELSE CacheEntries(d, SectionCollections["Movies"])

\* str(n) for n >= 0, as a sequence of digit characters
RECURSIVE Str(_)
Str(n) ==
    LET c == CHOOSE ch \in DOMAIN Digits : Digits[ch] = n % 10
    IN IF n < 10 THEN <<c>> ELSE Append(Str(n \div 10), c)

\* the rows csv.writer writes: the header, then one row per entry
CsvRows(d) ==
    <<<< <<"title">>, <<"tmdb_id">> >>>>
    \o [k \in 1..Len(d) |-> <<d[k][1], Str(d[k][2])>>]

\* ------------------------------------------------------------------------
\* State
\* ------------------------------------------------------------------------
VARIABLES
    SectionAll,        \* section.all() of each library on the Plex server
    FORCE_UPLOAD_ALL,  \* configuration flag
    DRY_RUN,           \* configuration flag
    ENABLE_UPLOAD,     \* configuration flag
    pc,                \* where main is
    libIdx,            \* index in LIBRARIES of the library being processed
    itemIdx,           \* index in section.all() of the item being processed
    cache,             \* the dict returned by build_tmdb_cache: title -> id
    cacheFile,         \* CACHE_FILE: whether it exists, and its rows
    store,             \* the files under BASE_DIR: path -> bytes
    dirs,              \* the directories under BASE_DIR
    call,              \* what the latest fix_art call read, did and decided
    redl,              \* (item, slot)s whose latest fix_art downloaded from TMDb
    uploads,           \* uploadPoster / uploadArt calls made in this run
    attempted,         \* (item, slot)s fix_art was called for in this run
    enumerated,        \* libraries whose section.all() returned in this run
    visited,           \* libraries main has entered its try block for, in order
    raised,            \* libraries whose process_section an exception has left
    slept,             \* items after which time.sleep(DELAY) has returned
    loaded,            \* what load_tmdb_cache returned, once it is called
    runs               \* runs started so far

vars == <<SectionAll, FORCE_UPLOAD_ALL, DRY_RUN, ENABLE_UPLOAD, pc, libIdx, itemIdx, cache,
          cacheFile, store, dirs, call, redl, uploads, attempted, enumerated,
          visited, raised, slept, loaded, runs>>

config == <<SectionAll, FORCE_UPLOAD_ALL, DRY_RUN, ENABLE_UPLOAD>>

\* every backup path the libraries can produce
PathsOf(sectionAll) ==
    {get_artwork_path(LIBRARIES[k], ItemTitle[sectionAll[LIBRARIES[k]][j]], ArtTypes[a]) :
        <<k, j, a>> \in {x \in (1..Len(LIBRARIES)) \X (1..2) \X (1..2) :
                            x[2] <= Len(sectionAll[LIBRARIES[x[1]]])}}

Paths == PathsOf(SectionAll)

Folders == {dirname(p) : p \in Paths}

\* ------------------------------------------------------------------------
\* fix_art and the functions it calls
\* ------------------------------------------------------------------------
\* open(path, 'wb'); f.write(content)
WriteFile(files, path, content) ==
    [p \in DOMAIN files \cup {path} |-> IF p = path THEN content ELSE files[p]]

\* What the with-block leaves on disk, by the answer of the request:
\*   "ok"         status 200, the content is written
\*   "non200"     another status: nothing is written
\*   "error"      requests.get raises: nothing is written
\*   "openError"  status 200, open() raises: nothing is written
\*   "writeError" status 200, open() creates or truncates the file and
\*                f.write raises after `written` bytes
SaveResponse(files, path, answer, content, written) ==
    CASE answer = "ok"         -> WriteFile(files, path, content)
      [] answer = "writeError" -> WriteFile(files, path, SubSeq(content, 1, written))
      [] OTHER                 -> files

\* backup_from_plex: the files afterwards
backup_from_plex(files, path, ref, answer, content, written) ==
    IF ref = "absent" THEN files
    ELSE SaveResponse(files, path, answer, content, written)

\* download_tmdb_art that opens the file and never writes r.content
download_tmdb_art_no_write(files, path, answer, content, written) ==
    SaveResponse(files, path, answer, <<>>, 0)

\* download_tmdb_art: the files afterwards (tmdb_data has the art path)
download_tmdb_art(files, path, answer, content, written) ==
    SaveResponse(files, path, answer, content, written)

\* line 167 with the probe's answer inverted
BrokenProbeInverted(ref, valid) == FORCE_UPLOAD_ALL \/ ref = "absent" \/ valid

\* line 167
Broken(ref, valid) == FORCE_UPLOAD_ALL \/ ref = "absent" \/ ~valid

\* line 183 without the "not" before FORCE_UPLOAD_ALL
RestoreOnlyWhenForced(exists) == exists /\ FORCE_UPLOAD_ALL

\* line 183 without the test of FORCE_UPLOAD_ALL
RestoreEvenWhenForced(exists) == exists

\* line 183
RestoreFromBackup(exists) == exists /\ ~FORCE_UPLOAD_ALL

\* lines 185 and 206 without the test of DRY_RUN
UploadIgnoringDryRun == ENABLE_UPLOAD

\* lines 185 and 206
UploadAllowed == ENABLE_UPLOAD /\ ~DRY_RUN

\* lines 190-202: which TMDb call is made for the title
LookupKind(c, title) ==
    IF Truthy(cache_get(c, title)) THEN "details" ELSE "search"

\* The answers of the outside world to one fix_art call.
\*   ref      item.thumb / item.art: "present", "absent", or reading it "raises"
\*   valid    the artwork URL answers 200; line 167 probes it only when
\*            FORCE_UPLOAD_ALL is off and the reference is present
\*   mkdir    os.makedirs succeeds
\*   plex     answer to the GET of backup_from_plex, plexImg its content
\*   lookup   "found" metadata with the art path, "nopath" metadata without
\*            it, "empty" no result, "error" the call raises
\*   tmdb     answer to the GET of download_tmdb_art, tmdbImg its content
\*   written  bytes written before a failing f.write raises: a proper
\*            prefix of the content, so 0 bytes of these one-byte images
\* An answer to a request the call does not make is left at its default.
DefaultPlexImg == CHOOSE i \in PlexImages : TRUE

DefaultTmdbImg == CHOOSE i \in TmdbImages : TRUE

NoPlexAnswers ==
    [ref |-> "raises", valid |-> FALSE, mkdir |-> TRUE, plex |-> "ok",
     plexImg |-> DefaultPlexImg, written |-> 0]

NoTmdbAnswers == [lookup |-> "empty", tmdb |-> "ok", tmdbImg |-> DefaultTmdbImg]

\* the answers to the GET of a response that is saved to a file
GetAnswers(images) ==
    {<<a, img>> : a \in {"ok", "openError", "writeError"}, img \in images}
    \cup {<<a, CHOOSE i \in images : TRUE>> : a \in {"non200", "error"}}

\* the answers of the Plex server and of the file system up to step 1;
\* os.makedirs(exist_ok=True) cannot fail on a folder that exists
PlexAnswers(existed, folderExists) ==
    LET mk == IF folderExists THEN {TRUE} ELSE BOOLEAN
    IN {NoPlexAnswers}
       \cup {[NoPlexAnswers EXCEPT !.ref = "absent", !.mkdir = m] : m \in mk}
       \cup {[NoPlexAnswers EXCEPT !.ref = "present", !.valid = v, !.mkdir = FALSE] :
                v \in BOOLEAN, m \in mk \ {TRUE}}
       \cup {[NoPlexAnswers EXCEPT !.ref = "present", !.valid = v,
                                   !.plex = g[1], !.plexImg = g[2]] :
                v \in BOOLEAN,
                g \in IF existed THEN {<<"ok", DefaultPlexImg>>}
                      ELSE GetAnswers(PlexImages)}

\* the answers of TMDb and of the file system in steps 4 and 5
TmdbAnswers ==
    {[NoTmdbAnswers EXCEPT !.lookup = l] : l \in {"nopath", "empty", "error"}}
    \cup {[lookup |-> "found", tmdb |-> g[1], tmdbImg |-> g[2]] :
             g \in GetAnswers(TmdbImages)}

\* the record of a call before any step has run
NoCall ==
    [item |-> 0, library |-> "", art_type |-> "", ref |-> "", valid |-> FALSE,
     existed |-> FALSE, backup |-> "none", lookup |-> "none", found |-> FALSE,
     download |-> "none", image |-> <<>>, outcome |-> "none", uploads |-> 0,
     uploaded |-> <<>>, again |-> FALSE]

\* fix_art(item, library, art_type, cache) run on the files and folders of
\* BASE_DIR with the answers `in`: the files and folders afterwards and the
\* record of the call.  Outcomes: "Healthy" ([OK]), "RestoredFromBackup"
\* ([RESTORE]), "RedownloadedFromProvider" (download_tmdb_art returned
\* True), "MissingNotFound" ([MISSING]), "Raised" (an exception left fix_art).
fix_art(item, library, art_type, c, files, folders, in) ==
    LET title == ItemTitle[item]
        backup_path == get_artwork_path(library, title, art_type)
        existed == backup_path \in DOMAIN files
        broken == Broken(in.ref, in.valid)
        base == [NoCall EXCEPT !.item = item, !.library = library,
                               !.art_type = art_type, !.ref = in.ref,
                               !.valid = (in.ref = "present" /\ in.valid),
                               !.existed = existed,
                               !.again = (<<item, art_type>> \in redl)]
        folders1 == folders \cup {dirname(backup_path)}
        \* step 1
        files1 == IF existed THEN files
                  ELSE backup_from_plex(files, backup_path, in.ref, in.plex,
                                        in.plexImg, in.written)
        rec1 == [base EXCEPT !.backup =
                    CASE existed -> "skipped"
                      [] in.ref = "absent" -> "noref"
                      [] in.plex = "ok" -> "saved"
                      [] in.plex = "writeError" -> "partial"
                      [] OTHER -> "failed"]
        \* step 4
        kind == LookupKind(c, title)
        found == in.lookup \in {"found", "nopath"}
        rec4 == [rec1 EXCEPT !.lookup = kind, !.found = found]
        \* step 5
        fetch == in.lookup = "found"
        files5 == IF fetch
                  THEN download_tmdb_art(files1, backup_path, in.tmdb,
                                         in.tmdbImg, in.written)
                  ELSE files1
        rec5 == [rec4 EXCEPT
                    !.download = CASE ~found -> "none"
                                   [] ~fetch -> "nopath"
                                   [] in.tmdb = "ok" -> "saved"
                                   [] in.tmdb = "writeError" -> "partial"
                                   [] OTHER -> "failed",
                    !.image = IF fetch /\ in.tmdb \in {"ok", "openError", "writeError"}
                              THEN in.tmdbImg ELSE <<>>]
    IN
    IF in.ref = "raises"
    THEN [files |-> files, folders |-> folders,
          rec |-> [base EXCEPT !.outcome = "Raised"]]
    ELSE IF ~in.mkdir
    THEN [files |-> files, folders |-> folders,
          rec |-> [base EXCEPT !.outcome = "Raised"]]
    ELSE IF ~broken
    THEN [files |-> files1, folders |-> folders1,
          rec |-> [rec1 EXCEPT !.outcome = "Healthy"]]
    ELSE IF RestoreFromBackup(backup_path \in DOMAIN files1)
    THEN [files |-> files1, folders |-> folders1,
          rec |-> [rec1 EXCEPT !.outcome = "RestoredFromBackup",
                               !.uploads = IF UploadAllowed THEN 1 ELSE 0,
                               !.uploaded = IF UploadAllowed
                                            THEN files1[backup_path] ELSE <<>>]]
    ELSE IF fetch /\ in.tmdb = "ok"
    THEN [files |-> files5, folders |-> folders1,
          rec |-> [rec5 EXCEPT !.outcome = "RedownloadedFromProvider",
                               !.uploads = IF UploadAllowed THEN 1 ELSE 0,
                               !.uploaded = IF UploadAllowed
                                            THEN files5[backup_path] ELSE <<>>]]
    ELSE [files |-> files5, folders |-> folders1,
          rec |-> [rec5 EXCEPT !.outcome = "MissingNotFound"]]

\* ------------------------------------------------------------------------
\* main and process_section
\* ------------------------------------------------------------------------
EmptyDict == [t \in {} |-> 0]

NoCacheFile == [exists |-> FALSE, rows |-> <<>>]

\* str.isdigit()
isdigit(str) == str # <<>> /\ \A k \in 1..Len(str) : IsDigit(str[k])

\* row[name] of csv.DictReader: the field under the column called `name`
\* in the first row of the file
RowField(header, row, name) ==
    LET k == CHOOSE j \in 1..Len(header) : header[j] = <<name>> IN row[k]

\* the loop of lines 158-160 over the rows after the header
RECURSIVE LoadRows(_, _, _)
LoadRows(c, header, rows) ==
    IF rows = <<>> THEN c
    ELSE LET title == RowField(header, Head(rows), "title")
             tmdb_id == RowField(header, Head(rows), "tmdb_id")
         IN LoadRows(IF title # <<>> /\ isdigit(tmdb_id)
                     THEN (title :> DigitRun(tmdb_id, 1, 0)) @@ c
                     ELSE c,
                     header, Tail(rows))

\* load_tmdb_cache(): {} when CACHE_FILE does not exist or holds no row
load_tmdb_cache(f) ==
    IF ~f.exists \/ f.rows = <<>> THEN EmptyDict
    ELSE LoadRows(EmptyDict, Head(f.rows), Tail(f.rows))

\* the backups a previous use of the script can have left under BASE_DIR
InitialStores == UNION {[S -> PlexImages] : S \in SUBSET Paths}

\* the state main starts in, whatever the server holds
InitRest ==
    /\ FORCE_UPLOAD_ALL \in BOOLEAN
    /\ DRY_RUN \in BOOLEAN
    /\ ENABLE_UPLOAD \in BOOLEAN
    /\ pc = "start"
    /\ libIdx = 0
    /\ itemIdx = 0
    /\ cache = EmptyDict
    /\ cacheFile = NoCacheFile
    /\ store \in InitialStores
    /\ \E extra \in SUBSET Folders :
          dirs = {dirname(p) : p \in DOMAIN store} \cup extra
    /\ call = NoCall
    /\ redl = {}
    /\ uploads = 0
    /\ attempted = {}
    /\ enumerated = {}
    /\ visited = <<>>
    /\ raised = {}
    /\ slept = {}
    /\ loaded = EmptyDict
    /\ runs = 1

Init ==
    /\ SectionAll \in Worlds
    /\ InitRest

\* the first run of a script that is run MaxRuns times on one server
InitRerun ==
    /\ SectionAll = RerunWorld
    /\ InitRest

\* a first run with the flags of lines 21-23, on any server of CacheWorlds
InitCache ==
    /\ SectionAll \in CacheWorlds
    /\ FORCE_UPLOAD_ALL = FALSE
    /\ DRY_RUN = FALSE
    /\ ENABLE_UPLOAD = TRUE
    /\ pc = "start"
    /\ libIdx = 0
    /\ itemIdx = 0
    /\ cache = EmptyDict
    /\ cacheFile = NoCacheFile
    /\ store = <<>>
    /\ dirs = {}
    /\ call = NoCall
    /\ redl = {}
    /\ uploads = 0
    /\ attempted = {}
    /\ enumerated = {}
    /\ visited = <<>>
    /\ raised = {}
    /\ slept = {}
    /\ loaded = EmptyDict
    /\ runs = 1

\* line 224: PlexServer(PLEX_URL, PLEX_TOKEN) returns
Connect ==
    /\ pc = "start"
    /\ pc' = "build"
    /\ UNCHANGED <<config, libIdx, itemIdx, cache, cacheFile, store, dirs, call,
                   redl, uploads, attempted, enumerated, visited, raised, slept,
                   loaded, runs>>

\* line 224: PlexServer raises; nothing catches it
ConnectFails ==
    /\ pc = "start"
    /\ pc' = "aborted"
    /\ UNCHANGED <<config, libIdx, itemIdx, cache, cacheFile, store, dirs, call,
                   redl, uploads, attempted, enumerated, visited, raised, slept,
                   loaded, runs>>

\* line 227: build_tmdb_cache(plex).  The with-block of line 143 either
\* writes every row ("ok"), or open() raises ("openError"), or a write
\* raises after `k` rows ("writeError"); an exception leaves main.
BuildCache ==
    /\ pc = "build"
    /\ \E failedLibs \in SUBSET {LIBRARIES[k] : k \in 1..Len(LIBRARIES)},
          collsFail \in BOOLEAN,
          wr \in {"ok", "openError", "writeError"} :
          LET d == BuiltDict(SectionAll, failedLibs, collsFail)
              rows == CsvRows(d)
          IN CASE wr = "ok" ->
                    /\ cache' = AsMapping(d)
                    /\ cacheFile' = [exists |-> TRUE, rows |-> rows]
                    /\ pc' = "library"
                    /\ libIdx' = 1
               [] wr = "openError" ->
                    /\ UNCHANGED <<cache, cacheFile, libIdx>>
                    /\ pc' = "crashed"
               [] wr = "writeError" ->
                    /\ \E k \in 0..(Len(rows) - 1) :
                          cacheFile' = [exists |-> TRUE, rows |-> SubSeq(rows, 1, k)]
                    /\ UNCHANGED <<cache, libIdx>>
                    /\ pc' = "crashed"
    /\ UNCHANGED <<config, itemIdx, store, dirs, call, redl, uploads, attempted,
                   enumerated, visited, raised, slept,
                   loaded, runs>>

CurLib == LIBRARIES[libIdx]

CurItem == SectionAll[CurLib][itemIdx]

\* lines 230-234 and 213: the library is found and enumerated
EnterLibrary ==
    /\ pc = "library"
    /\ libIdx <= Len(LIBRARIES)
    /\ enumerated' = enumerated \cup {CurLib}
    /\ IF SectionAll[CurLib] = <<>>
       THEN /\ libIdx' = libIdx + 1
            /\ UNCHANGED <<pc, itemIdx>>
       ELSE /\ pc' = "poster"
            /\ itemIdx' = 1
            /\ UNCHANGED libIdx
    /\ visited' = Append(visited, CurLib)
    /\ call' = NoCall
    /\ UNCHANGED <<config, cache, cacheFile, store, dirs, redl, uploads,
                   attempted, raised, slept,
                   loaded, runs>>

\* as LibraryFails, with the try of line 231 around the whole loop of line
\* 230: the first failing library ends the loop
LibraryFailsEndsLoop ==
    /\ pc = "library"
    /\ libIdx <= Len(LIBRARIES)
    /\ libIdx' = Len(LIBRARIES) + 1
    /\ visited' = Append(visited, CurLib)
    /\ call' = NoCall
    /\ UNCHANGED <<config, pc, itemIdx, cache, cacheFile, store, dirs, redl,
                   uploads, attempted, enumerated, raised, slept,
                   loaded, runs>>

\* lines 233-236: section(lib) or section.all() raises; the except clause of
\* main logs it and the loop goes on with the next library
LibraryFails ==
    /\ pc = "library"
    /\ libIdx <= Len(LIBRARIES)
    /\ libIdx' = libIdx + 1
    /\ visited' = Append(visited, CurLib)
    /\ call' = NoCall
    /\ UNCHANGED <<config, pc, itemIdx, cache, cacheFile, store, dirs, redl,
                   uploads, attempted, enumerated, raised, slept,
                   loaded, runs>>

\* process_section that sleeps right after the poster call
AfterSlotSkipsBackground(art_type) == "sleep"

\* lines 214-216: after the poster call the background call, then the sleep
AfterSlot(art_type) == IF art_type = "poster" THEN "background" ELSE "sleep"

\* lines 214-215: one call of fix_art.  An exception leaves process_section
\* and is caught by the except clause of main (line 235).
FixArtStep ==
    /\ pc \in {"poster", "background"}
    /\ LET path == get_artwork_path(CurLib, ItemTitle[CurItem], pc)
       IN \E p \in PlexAnswers(path \in DOMAIN store, dirname(path) \in dirs) :
          \E t \in IF fix_art(CurItem, CurLib, pc, cache, store, dirs,
                              p @@ NoTmdbAnswers).rec.lookup = "none"
                   THEN {NoTmdbAnswers} ELSE TmdbAnswers :
          \E r \in {fix_art(CurItem, CurLib, pc, cache, store, dirs, p @@ t)} :
             LET slot == <<CurItem, pc>>
             IN /\ store' = r.files
                /\ dirs' = r.folders
                /\ call' = r.rec
                /\ uploads' = uploads + r.rec.uploads
                /\ attempted' = attempted \cup {slot}
                /\ redl' = IF r.rec.outcome = "RedownloadedFromProvider"
                           THEN redl \cup {slot} ELSE redl \ {slot}
                /\ IF r.rec.outcome = "Raised"
                   THEN /\ pc' = "library"
                        /\ libIdx' = libIdx + 1
                        /\ itemIdx' = 0
                        /\ raised' = raised \cup {CurLib}
                   ELSE /\ pc' = AfterSlot(pc)
                        /\ UNCHANGED <<libIdx, itemIdx, raised>>
    /\ UNCHANGED <<config, cache, cacheFile, enumerated, visited, slept, loaded,
                   runs>>

\* line 216: time.sleep(DELAY), then the next item or the next library
Sleep ==
    /\ pc = "sleep"
    /\ IF itemIdx < Len(SectionAll[CurLib])
       THEN /\ pc' = "poster"
            /\ itemIdx' = itemIdx + 1
            /\ UNCHANGED libIdx
       ELSE /\ pc' = "library"
            /\ libIdx' = libIdx + 1
            /\ itemIdx' = 0
    /\ slept' = slept \cup {CurItem}
    /\ call' = NoCall
    /\ UNCHANGED <<config, cache, cacheFile, store, dirs, redl, uploads,
                   attempted, enumerated, visited, raised, loaded, runs>>

\* the loop of line 230 is exhausted: main returns
Finish ==
    /\ pc = "library"
    /\ libIdx > Len(LIBRARIES)
    /\ pc' = "done"
    /\ call' = NoCall
    /\ UNCHANGED <<config, libIdx, itemIdx, cache, cacheFile, store, dirs, redl,
                   uploads, attempted, enumerated, visited, raised, slept,
                   loaded, runs>>

\* the script is started again over the same BASE_DIR and CACHE_FILE
Restart ==
    /\ pc \in {"done", "aborted", "crashed"}
    /\ runs < MaxRuns
    /\ runs' = runs + 1
    /\ pc' = "start"
    /\ libIdx' = 0
    /\ itemIdx' = 0
    /\ cache' = EmptyDict
    /\ call' = NoCall
    /\ uploads' = 0
    /\ attempted' = {}
    /\ enumerated' = {}
    /\ visited' = <<>>
    /\ raised' = {}
    /\ slept' = {}
    /\ UNCHANGED <<config, cacheFile, store, dirs, redl, loaded>>

\* one run of main
Next ==
    \/ Connect
    \/ ConnectFails
    \/ BuildCache
    \/ EnterLibrary
    \/ LibraryFails
    \/ FixArtStep
    \/ Sleep
    \/ Finish

Spec == Init /\ [][Next]_vars

\* MaxRuns runs of main, one after the other
NextRerun ==
    \/ Next
    \/ Restart

SpecRerun == InitRerun /\ [][NextRerun]_vars

\* load_tmdb_cache() applied to the file build_tmdb_cache has just written
LoadCache ==
    /\ pc = "library"
    /\ libIdx = 1
    /\ loaded' = load_tmdb_cache(cacheFile)
    /\ pc' = "loaded"
    /\ UNCHANGED <<config, libIdx, itemIdx, cache, cacheFile, store, dirs, call,
                   redl, uploads, attempted, enumerated, visited, raised, slept,
                   runs>>

\* build_tmdb_cache, then load_tmdb_cache
NextCache ==
    \/ Connect
    \/ ConnectFails
    \/ BuildCache
    \/ LoadCache

SpecCache == InitCache /\ [][NextCache]_vars

TypeOK ==
    /\ pc \in {"start", "build", "library", "poster", "background", "sleep",
               "done", "aborted", "crashed", "loaded"}
    /\ DOMAIN store \subseteq Paths
    /\ dirs \subseteq Folders
    /\ \A p \in DOMAIN store : dirname(p) \in dirs
    /\ uploads \in 0..4

\* ------------------------------------------------------------------------
\* Properties of fix_art
\* ------------------------------------------------------------------------
\* a fix_art call has just returned or raised
Called == call.outcome # "none"

\* a fix_art call has just returned
Returned == call.outcome \notin {"none", "Raised"}

\* the backup path of the latest call
CallPath == get_artwork_path(call.library, ItemTitle[call.item], call.art_type)

\* this step is a fix_art call
IsFixArt == call' # call /\ call'.outcome # "none"

\* C1: a call that returns, for a slot whose reference is present and whose
\* probe succeeds, with force-refresh off, ends Healthy and makes no upload,
\* no TMDb lookup and no TMDb download, whether or not a backup existed.
C1_ValidIsHealthy ==
    (Returned /\ call.ref = "present" /\ call.valid /\ ~FORCE_UPLOAD_ALL)
        => /\ call.outcome = "Healthy"
           /\ call.uploads = 0
           /\ call.lookup = "none"
           /\ call.download = "none"

C1_Witness ==
    /\ call.outcome = "Healthy"
    /\ ~call.existed
    /\ call.backup = "saved"
    /\ ~FORCE_UPLOAD_ALL

\* C2: a call for a slot whose reference is absent or fails the probe, with
\* a backup on disk and force-refresh off, ends RestoredFromBackup, makes no
\* TMDb call, leaves the backup as it was, and what it uploads is the bytes
\* the backup had when the call started.
C2_BrokenRestoresBackup ==
    [][(/\ IsFixArt
        /\ call'.ref \in {"absent", "present"}
        /\ ~call'.valid
        /\ call'.existed
        /\ ~FORCE_UPLOAD_ALL)
       => /\ call'.outcome = "RestoredFromBackup"
          /\ call'.lookup = "none"
          /\ call'.download = "none"
          /\ store' = store
          /\ call'.uploads = 1 => call'.uploaded = store[CallPath']]_vars

C2_Witness ==
    /\ call.outcome = "RestoredFromBackup"
    /\ call.ref = "present"
    /\ call.existed
    /\ ~FORCE_UPLOAD_ALL
    /\ call.uploads = 1
    /\ call.uploaded = store[CallPath]

\* C3 as claimed: with force-refresh on, a call for a slot with a valid URL
\* and a backup on disk restores the backup: one upload (when uploads are
\* allowed) of the bytes the backup had, and no TMDb download.
C3_ForcedRestoresBackup ==
    [][(/\ IsFixArt
        /\ FORCE_UPLOAD_ALL
        /\ call'.ref = "present"
        /\ call'.valid
        /\ call'.existed)
       => /\ call'.outcome = "RestoredFromBackup"
          /\ call'.download = "none"
          /\ store' = store
          /\ (ENABLE_UPLOAD /\ ~DRY_RUN)
                => call'.uploads = 1 /\ call'.uploaded = store[CallPath']]_vars

\* C3 amended: with force-refresh on, a call for a slot with a valid URL and
\* a backup on disk never restores the backup: it asks TMDb, and ends
\* RedownloadedFromProvider or MissingNotFound.  After a successful download
\* the backup holds the downloaded bytes, and the one upload (when uploads
\* are allowed) carries them; otherwise there is no upload.
C3_ForcedAsksProvider ==
    (/\ Called
     /\ FORCE_UPLOAD_ALL
     /\ call.ref = "present"
     /\ call.valid
     /\ call.existed)
    => /\ call.outcome \in {"RedownloadedFromProvider", "MissingNotFound"}
       /\ call.lookup # "none"
       /\ call.outcome = "RedownloadedFromProvider"
            => /\ store[CallPath] = call.image
               /\ call.uploads = (IF ENABLE_UPLOAD /\ ~DRY_RUN THEN 1 ELSE 0)
               /\ call.uploads = 1 => call.uploaded = call.image
       /\ call.outcome = "MissingNotFound" => call.uploads = 0

C3_Witness ==
    /\ FORCE_UPLOAD_ALL
    /\ call.ref = "present"
    /\ call.valid
    /\ call.existed
    /\ call.outcome = "RedownloadedFromProvider"
    /\ call.uploads = 1
    /\ call.uploaded = call.image

\* C4: a call for a slot whose reference is absent and that has no backup,
\* for which the TMDb lookup finds the image and download_tmdb_art saves it,
\* ends RedownloadedFromProvider, and the backup then holds exactly the
\* downloaded bytes.
C4_DownloadIsBackedUp ==
    (/\ Called
     /\ call.ref = "absent"
     /\ ~call.existed
     /\ call.found
     /\ call.download = "saved")
    => /\ call.outcome = "RedownloadedFromProvider"
       /\ CallPath \in DOMAIN store
       /\ store[CallPath] = call.image
       /\ call.image \in TmdbImages

C4_Witness ==
    /\ call.ref = "absent"
    /\ ~call.existed
    /\ call.outcome = "RedownloadedFromProvider"
    /\ store[CallPath] = call.image

\* C5 as claimed: a call that returns, for an (item, slot) whose previous
\* call ended RedownloadedFromProvider, ends Healthy or RestoredFromBackup
\* and makes no TMDb lookup and no TMDb download.
C5_RerunNeverAsksProvider ==
    (Returned /\ call.again)
        => /\ call.outcome \in {"Healthy", "RestoredFromBackup"}
           /\ call.lookup = "none"
           /\ call.download = "none"

\* C5 amended: with force-refresh off, a call for an (item, slot) whose
\* previous call ended RedownloadedFromProvider makes no TMDb lookup and no
\* TMDb download, and when it returns it ends Healthy or RestoredFromBackup.
C5_UnforcedRerunNeverAsksProvider ==
    (Called /\ call.again /\ ~FORCE_UPLOAD_ALL)
        => /\ call.lookup = "none"
           /\ call.download = "none"
           /\ Returned => call.outcome \in {"Healthy", "RestoredFromBackup"}

C5_Witness ==
    /\ call.again
    /\ ~FORCE_UPLOAD_ALL
    /\ call.outcome = "RestoredFromBackup"
    /\ runs = 2

\* the TMDb lookup of this call was made and found no metadata, and the
\* call started without a backup
LookupFoundNothing ==
    /\ IsFixArt
    /\ ~call'.existed
    /\ call'.lookup # "none"
    /\ ~call'.found

\* C6 as claimed: a call that starts without a backup and whose TMDb lookup
\* fails or is empty ends MissingNotFound, uploads nothing and leaves the
\* Backup Store as it was.
C6_MissingLeavesStore ==
    [][LookupFoundNothing
       => /\ call'.outcome = "MissingNotFound"
          /\ call'.uploads = 0
          /\ store' = store]_vars

\* C6 amended: such a call ends MissingNotFound and uploads nothing; with
\* force-refresh off it leaves the Backup Store as it was; with
\* force-refresh on the only change it can make is the file the live copy of
\* step 1 wrote at the backup path.
C6_MissingLeavesStoreUnlessForced ==
    [][LookupFoundNothing
       => /\ call'.outcome = "MissingNotFound"
          /\ call'.uploads = 0
          /\ ~FORCE_UPLOAD_ALL => store' = store
          /\ store' # store
                => /\ call'.backup \in {"saved", "partial"}
                   /\ \E img \in PlexImages : \E n \in 0..Len(img) :
                         store' = WriteFile(store, CallPath', SubSeq(img, 1, n))]_vars

C6_Witness ==
    /\ call.outcome = "MissingNotFound"
    /\ ~call.existed
    /\ call.lookup # "none"
    /\ ~call.found
    /\ call.ref = "present"
    /\ ~FORCE_UPLOAD_ALL
    /\ CallPath \notin DOMAIN store

\* C7: a call makes one upload when it ends RestoredFromBackup or
\* RedownloadedFromProvider with ENABLE_UPLOAD on and DRY_RUN off, and none
\* otherwise; with DRY_RUN on or ENABLE_UPLOAD off the run makes no upload.
C7_UploadGating ==
    /\ Called => call.uploads =
                    (IF /\ call.outcome \in {"RestoredFromBackup",
                                             "RedownloadedFromProvider"}
                        /\ ENABLE_UPLOAD
                        /\ ~DRY_RUN
                     THEN 1 ELSE 0)
    /\ (DRY_RUN \/ ~ENABLE_UPLOAD) => uploads = 0

C7_Witness ==
    /\ DRY_RUN
    /\ ENABLE_UPLOAD
    /\ call.outcome = "RestoredFromBackup"
    /\ call.uploads = 0
    /\ uploads = 0

\* C8: with DRY_RUN on no step creates or overwrites a file of the Backup
\* Store.
C8_DryRunLeavesStore == [][DRY_RUN => store' = store]_vars

\* C9: a call that asks TMDb makes the details call when the cache holds an
\* identifier for the item's title, also when that call fails, and makes the
\* search call only when the cache has no entry for the title.
C9_CachedIdMeansDetails ==
    (Called /\ call.lookup # "none")
        => (call.lookup = "details" <=> ItemTitle[call.item] \in DOMAIN cache)

C9_Witness ==
    /\ call.lookup = "details"
    /\ ~call.found
    /\ call.outcome = "MissingNotFound"
    /\ ItemTitle[call.item] \in DOMAIN cache

\* C10: when main is done, both slots of every item of every library that
\* was enumerated have been reconciled, whatever a fix_art call raised.
C10_ErrorsStayLocal ==
    pc = "done"
        => \A lib \in enumerated :
              \A j \in 1..Len(SectionAll[lib]) : \A a \in 1..Len(ArtTypes) :
                 <<SectionAll[lib][j], ArtTypes[a]>> \in attempted


\* ------------------------------------------------------------------------
\* Properties of main
\* ------------------------------------------------------------------------
\* C11: once PlexServer has connected, no failure ends the run abnormally:
\* main is never left through an exception after the connection, whatever
\* item, library or storage write (cache file, backup file) fails.
C11_OnlyConnectionAborts == pc # "crashed"


\* every (item, slot) of library `lib` has been handed to fix_art
AllAttempted(lib) ==
    \A j \in 1..Len(SectionAll[lib]) : \A a \in 1..Len(ArtTypes) :
        <<SectionAll[lib][j], ArtTypes[a]>> \in attempted

\* C12: a library whose lookup or enumeration raises does not stop the
\* loop of main: the libraries are entered in the configured order, at the
\* end of the run every configured library has been entered, and every
\* library that was enumerated has had its items handed to fix_art (all of
\* them, unless a fix_art call of that library itself raised).
C12_LaterLibrariesStillProcessed ==
    /\ Len(visited) <= Len(LIBRARIES)
    /\ visited = SubSeq(LIBRARIES, 1, Len(visited))
    /\ pc = "done"
        => /\ visited = LIBRARIES
           /\ \A lib \in enumerated \ raised : AllAttempted(lib)
           /\ \A lib \in enumerated \cap raised :
                 <<SectionAll[lib][1], "poster">> \in attempted

\* the first library failed, the second was enumerated and reconciled
C12_Witness ==
    /\ pc = "done"
    /\ LIBRARIES[1] \notin enumerated
    /\ LIBRARIES[2] \in enumerated
    /\ SectionAll[LIBRARIES[2]] # <<>>
    /\ AllAttempted(LIBRARIES[2])


\* C13: after the items, the named collections of each library are
\* reconciled: at the end of a run in which no fix_art call raised, both
\* slots of every collection of every enumerated library have been handed
\* to fix_art.
C13_CollectionsReconciled ==
    (pc = "done" /\ raised = {})
        => \A lib \in enumerated :
              \A j \in 1..Len(SectionCollections[lib]) :
                 \A a \in 1..Len(ArtTypes) :
                    <<SectionCollections[lib][j], ArtTypes[a]>> \in attempted


\* ------------------------------------------------------------------------
\* Properties of the cache functions
\* ------------------------------------------------------------------------
\* C14: for any libraries, titles (the empty title included) and
\* identifiers, load_tmdb_cache applied to the file build_tmdb_cache wrote
\* returns the mapping build_tmdb_cache returned.
C14_LoadOfBuildIsBuild == pc = "loaded" => loaded = cache


\* ------------------------------------------------------------------------
\* Properties of the backup store
\* ------------------------------------------------------------------------
\* C15: when the image of TMDb has been fetched and saving it under the
\* backup path fails, the fetched bytes are still uploaded if uploads are
\* enabled and simulate-only is off.
C15_SaveFailureStillUploads ==
    (/\ Called
     /\ call.image # <<>>
     /\ call.download \in {"partial", "failed"}
     /\ UploadAllowed)
        => /\ call.uploads = 1
           /\ call.uploaded = call.image


\* C16: a backup_from_plex attempt that fails (no reference, a status
\* other than 200, a transport error, a storage error while writing)
\* leaves fix_art where it would be without the attempt: no backup existed
\* before, so the call does not restore from a backup, and whatever it
\* uploads is the image it fetched from TMDb.
C16_FailedBackupChangesNothing ==
    (Called /\ call.backup \in {"noref", "failed", "partial"})
        => /\ call.outcome # "RestoredFromBackup"
           /\ call.uploads = 1 => call.uploaded = call.image


\* the file holds every row of some mapping build_tmdb_cache can produce
CompleteCacheFile(f) ==
    /\ f.exists
    /\ \E failedLibs \in SUBSET {LIBRARIES[k] : k \in 1..Len(LIBRARIES)},
          collsFail \in BOOLEAN :
          f.rows = CsvRows(BuiltDict(SectionAll, failedLibs, collsFail))

\* C17: a cache file persisted by an earlier run is never left corrupted
\* by a build that ends early: after any step of build_tmdb_cache the file
\* is the old file or holds a complete new mapping.
C17_CacheFileNeverCorrupted ==
    [][(pc = "build" /\ CompleteCacheFile(cacheFile))
          => (cacheFile' = cacheFile \/ CompleteCacheFile(cacheFile'))]_vars


\* C18: a run that finds CACHE_FILE on disk does not build the cache anew:
\* the file is left as it is and the mapping the run goes on with is the
\* one load_tmdb_cache reads from it.
C18_ExistingFileIsLoaded ==
    [][(pc = "build" /\ cacheFile.exists)
          => /\ cacheFile' = cacheFile
             /\ pc' = "library" => cache' = load_tmdb_cache(cacheFile)]_vars


\* ------------------------------------------------------------------------
\* Properties of process_section
\* ------------------------------------------------------------------------
\* C19: within a library the poster call of an item has returned with an
\* outcome before its background call starts; the sleep of an item comes
\* after both of its calls and before the poster call of the next item;
\* and no step makes more than one fix_art call.
C19_OneSlotAtATime ==
    /\ [](/\ pc = "background"
              => /\ Returned
                 /\ call.item = CurItem
                 /\ call.art_type = "poster"
          /\ \A slot \in attempted :
                slot[2] = "background" => <<slot[1], "poster">> \in attempted
          /\ \A item \in slept :
                \A a \in 1..Len(ArtTypes) : <<item, ArtTypes[a]>> \in attempted
          /\ \A lib \in DOMAIN SectionAll :
                \A j \in 2..Len(SectionAll[lib]) :
                   <<SectionAll[lib][j], "poster">> \in attempted
                      => SectionAll[lib][j - 1] \in slept)
    /\ [][/\ Cardinality(attempted' \ attempted) <= 1
          /\ slept' # slept => attempted' = attempted]_vars

\* the poster call of a second item has been made
C19_Witness ==
    /\ Len(SectionAll[LIBRARIES[1]]) = 2
    /\ <<SectionAll[LIBRARIES[1]][2], "poster">> \in attempted
    /\ SectionAll[LIBRARIES[1]][1] \in slept


\* C20: a backup record, once it exists, exists in every later state, and
\* its bytes change only through a successful download from TMDb for its
\* own key, which leaves the downloaded image in it; in particular the
\* copy of the live artwork never overwrites it.
C20_RecordsOnlyReplacedByDownloads ==
    [][\A p \in DOMAIN store :
          /\ p \in DOMAIN store'
          /\ store'[p] # store[p]
                => /\ IsFixArt
                   /\ call'.outcome = "RedownloadedFromProvider"
                   /\ CallPath' = p
                   /\ store'[p] = call'.image]_vars

====
